---------------------------- MODULE Spec2Model ----------------------------
(***************************************************************************)
(* Functional dependencies over a relation (package funcdep): attribute    *)
(* sets, the attribute closure fixpoint, the three candidate-key           *)
(* strategies, the minimality filter and the FD algebra.                   *)
(*                                                                         *)
(* An AttrSet is a Go slice of strings: it is modelled as a sequence (its  *)
(* order and possible duplicates kept) of attribute names, and a name is   *)
(* the sequence of its bytes, so that AttrSet.String (sort, then join with *)
(* AttrSep) is computed and not assumed injective.                         *)
(***************************************************************************)
EXTENDS Integers, Sequences, FiniteSets, TLC

VARIABLES attrs, fds, op, arg, out, loop

vars == <<attrs, fds, op, arg, out, loop>>

-----------------------------------------------------------------------------
(* Bounds of the model *)

\* longest Relation.Attrs list
MaxAttrs == 3
\* longest Relation.FuncDeps list
MaxFDs == 2
\* most attributes on one side of an FD
MaxSide == 2
\* longest candidate list handed to the minimality filter
MaxCands == 3
\* most attributes on one side of an FD where the loops are run step by step
MaxLoopSide == 1
\* most argument sets in one call of a variadic AttrSet method
MaxArgs == 2

-----------------------------------------------------------------------------
(* Attribute names: "A", "B" and "A,B" (a name that holds the separator) *)

AttrSep == <<44>>

AttrA == <<65>>
AttrB == <<66>>
AttrAB == <<65, 44, 66>>

Names == {AttrA, AttrB, AttrAB}

\* F applied to the value of v, which is computed once
Bind(v, F(_)) == CHOOSE r \in {F(x) : x \in {v}} : TRUE

\* the members of a slice, as a set
Members(s) == {s[i] : i \in DOMAIN s}

HasDup(s) == \E i, j \in DOMAIN s : i < j /\ s[i] = s[j]

\* Go's < on strings: bytewise lexicographic
StrLess(a, b) ==
    \E k \in 1..Len(b) :
        /\ Len(a) >= k - 1
        /\ \A j \in 1..(k - 1) : a[j] = b[j]
        /\ (Len(a) = k - 1 \/ a[k] < b[k])

\* the slice after sort.Slice(s, s[i] < s[j]): equal names are the same
\* string, so every sort algorithm leaves the same slice
RECURSIVE InsertSorted(_, _)
InsertSorted(s, a) ==
    IF s = <<>> THEN <<a>>
    ELSE IF StrLess(a, Head(s)) THEN <<a>> \o s
    ELSE <<Head(s)>> \o InsertSorted(Tail(s), a)

RECURSIVE SortAttrs(_)
SortAttrs(s) ==
    IF s = <<>> THEN <<>>
    ELSE Bind(SortAttrs(Tail(s)), LAMBDA t : InsertSorted(t, Head(s)))

RECURSIVE Join(_)
Join(s) ==
    IF s = <<>> THEN <<>>
    ELSE IF Len(s) = 1 THEN s[1]
    ELSE s[1] \o AttrSep \o Join(Tail(s))

\* AttrSet.String: sorts the receiver's backing array in place, then joins
String(s) == Join(SortAttrs(s))

\* AttrSet.Contains: other is a subset of s
Contains(s, other) ==
    \A i \in DOMAIN other : \E j \in DOMAIN s : s[j] = other[i]

\* AttrSet.Add: the boolean result, and the slice afterwards
AddOk(s, a) == \A i \in DOMAIN s : s[i] # a

Add(s, a) == IF AddOk(s, a) THEN Append(s, a) ELSE s

\* AttrSet.AddAll with one argument set
RECURSIVE AddAll1(_, _)
AddAll1(s, other) ==
    IF other = <<>> THEN s
    ELSE Bind(Add(s, Head(other)), LAMBDA t : AddAll1(t, Tail(other)))

\* AttrSet.AddAll(others...): others is the list of argument sets
RECURSIVE AddAll(_, _)
AddAll(s, others) ==
    IF others = <<>> THEN s
    ELSE Bind(AddAll1(s, Head(others)), LAMBDA t : AddAll(t, Tail(others)))

\* AttrSet.Remove: the first occurrence is swapped with the last element,
\* which is then cut off
RemoveOk(s, a) == \E i \in DOMAIN s : s[i] = a

\* (faulty variant of Remove) the last element is cut off without the swap
RemoveLast(s, a) ==
    IF ~RemoveOk(s, a) THEN s ELSE SubSeq(s, 1, Len(s) - 1)

Remove(s, a) ==
    IF ~RemoveOk(s, a) THEN s
    ELSE LET i == CHOOSE k \in DOMAIN s :
                      s[k] = a /\ \A m \in 1..(k - 1) : s[m] # a
             j == Len(s)
         IN  IF j = 1 THEN <<>>
             ELSE SubSeq([s EXCEPT ![i] = s[j], ![j] = s[i]], 1, j - 1)

\* AttrSet.Union(others...): res takes the entries of s, then those of every
\* argument set, by Add
RECURSIVE UnionLoop(_, _)
UnionLoop(res, others) ==
    IF others = <<>> THEN res
    ELSE Bind(AddAll1(res, Head(others)), LAMBDA t : UnionLoop(t, Tail(others)))

Union(s, others) == UnionLoop(AddAll1(<<>>, s), others)

-----------------------------------------------------------------------------
(* FuncDep and Relation.Closure *)

FD(l, r) == [Left |-> l, Right |-> r]

\* one pass of the inner loop "for _, other := range r.FuncDeps"
RECURSIVE ClosurePass(_, _)
ClosurePass(right, deps) ==
    IF deps = <<>> THEN right
    ELSE Bind(IF Contains(right, Head(deps).Left)
              THEN AddAll(right, <<Head(deps).Right>>)
              ELSE right,
              LAMBDA r2 : ClosurePass(r2, Tail(deps)))

\* (faulty variant of ClosureLoop) "if n != lastN": one pass only
ClosureLoopOnce(right, deps, lastN, n) ==
    IF n = lastN THEN right ELSE ClosurePass(right, deps)

\* (faulty variant of ClosureLoop) one pass over the FDs in reverse order, then the loop
\* stops although the pass added members
RECURSIVE Reverse(_)
Reverse(q) == IF q = <<>> THEN <<>> ELSE Append(Reverse(Tail(q)), Head(q))

ClosureLoopReversedOnce(right, deps, lastN, n) ==
    IF n = lastN THEN right ELSE ClosurePass(right, Reverse(deps))

\* the loop "for n != lastN"
RECURSIVE ClosureLoop(_, _, _, _)
ClosureLoop(right, deps, lastN, n) ==
    IF n = lastN THEN right
    ELSE Bind(ClosurePass(right, deps),
              LAMBDA r2 : ClosureLoop(r2, deps, n, Len(r2)))

Closure(deps, fd) ==
    LET right == AddAll(<<>>, <<fd.Left, fd.Right>>)
    IN  FD(AddAll(<<>>, <<fd.Left>>), ClosureLoop(right, deps, 0, Len(right)))

\* Relation.Closures: the closure of every declared FD, in list order
Closures(deps) == [i \in DOMAIN deps |-> Closure(deps, deps[i])]

-----------------------------------------------------------------------------
(* Candidate keys: strategies 1 and 2 *)

\* the orders in which "for x := range inter" can visit the keys of a map
PermsOf(S) ==
    {f \in [1..Cardinality(S) -> S] :
        \A i, j \in 1..Cardinality(S) : i # j => f[i] # f[j]}

\* AttrSet.Difference(others...): the slices it can return, one per
\* iteration order of the map that holds what is left of s
RECURSIVE MembersOfAll(_)
MembersOfAll(others) ==
    IF others = <<>> THEN {}
    ELSE Members(Head(others)) \cup MembersOfAll(Tail(others))

\* the entries of the argument sets in the order the two loops visit them
RECURSIVE Flatten(_)
Flatten(others) ==
    IF others = <<>> THEN <<>> ELSE Head(others) \o Flatten(Tail(others))

\* "delete(inter, x)" for the entries xs; done when inter ran empty and the
\* call returned the nil res at once
RECURSIVE DeleteAll(_, _)
DeleteAll(inter, xs) ==
    IF xs = <<>> THEN [inter |-> inter, done |-> FALSE]
    ELSE Bind(inter \ {Head(xs)}, LAMBDA left :
             IF left = {} THEN [inter |-> {}, done |-> TRUE]
             ELSE DeleteAll(left, Tail(xs)))

Difference(s, others) ==
    Bind(DeleteAll(Members(s), Flatten(others)), LAMBDA r :
        IF r.done THEN {<<>>} ELSE PermsOf(r.inter))

\* the loop of CandidateKeys over the closures
RECURSIVE CandidateKeysLoop(_, _)
CandidateKeysLoop(as, clo) ==
    IF clo = <<>> THEN <<>>
    ELSE (IF Len(Head(clo).Right) = Len(as) THEN <<Head(clo).Left>> ELSE <<>>)
         \o CandidateKeysLoop(as, Tail(clo))

CandidateKeys(as, deps) == CandidateKeysLoop(as, Closures(deps))

\* (faulty variant of AltKey) only diff[0] is added to the left side
AltKeyFirstOnly(cfd, diff) ==
    IF Len(diff) > 0 THEN Add(cfd.Left, diff[1]) ELSE cfd.Left

\* the body of CandidateKeysAlt's loop for one closure and one order diff
AltKey(cfd, diff) ==
    LET l1 == IF Len(diff) > 0 THEN Add(cfd.Left, diff[1]) ELSE cfd.Left
    IN  IF Len(diff) > 1 THEN Add(l1, diff[2]) ELSE l1

\* the loop of CandidateKeysAlt: the lists it can return
RECURSIVE CandidateKeysAltLoop(_, _)
CandidateKeysAltLoop(as, clo) ==
    IF clo = <<>> THEN {<<>>}
    ELSE LET cfd == Head(clo)
             rest == CandidateKeysAltLoop(as, Tail(clo))
         IN  IF Len(cfd.Right) >= Len(as) - 2
             THEN {<<AltKey(cfd, d)>> \o r :
                      d \in Difference(as, <<cfd.Right>>), r \in rest}
             ELSE rest

CandidateKeysAlt(as, deps) == CandidateKeysAltLoop(as, Closures(deps))

-----------------------------------------------------------------------------
(* Candidate keys: strategy 3, the exhaustive search *)

\* the closure that check computes for the subset a, over the closures clos
checkClosure(a, clos) ==
    Bind(AddAll(<<>>, <<a>>), LAMBDA right : ClosureLoop(right, clos, 0, Len(right)))

\* the closure check(a) of enumerateCandidateKeys; st holds the memoization
\* set hits and the list result. a.String() has sorted a by then.
check(st, a, as, clos) ==
    IF String(a) \in st.hits THEN st
    ELSE Bind(SortAttrs(a), LAMBDA sorted :
         Bind(checkClosure(sorted, clos), LAMBDA right :
             [hits |-> st.hits \cup {Join(sorted)},
              result |-> IF Len(right) = Len(as)
                         THEN Append(st.result, AddAll(<<>>, <<sorted>>))
                         ELSE st.result]))

RECURSIVE recurBF(_, _, _, _, _)
RECURSIVE recurBFLoop(_, _, _, _, _, _)
\* the loop "for _, a1 := range r.Attrs" of recurBF, from index i on
recurBFLoop(as, clos, z, i, nremain, st) ==
    IF i > Len(as) THEN st
    ELSE IF AddOk(z, as[i])
         THEN LET st1 == check(st, Append(z, as[i]), as, clos)
                  \* check sorted the array z shares with its argument
                  z1 == SortAttrs(Append(z, as[i]))
                  st2 == IF nremain > 1
                         THEN recurBF(as, clos, z1, nremain - 1, st1)
                         ELSE st1
              IN  recurBFLoop(as, clos, Remove(z1, as[i]), i + 1, nremain, st2)
         ELSE recurBFLoop(as, clos, z, i + 1, nremain, st)

recurBF(as, clos, x, nremain, st) ==
    recurBFLoop(as, clos, AddAll(<<>>, <<x>>), 1, nremain, st)

enumerateCandidateKeys(as, deps) ==
    recurBF(as, Closures(deps), <<>>, Len(as),
            [hits |-> {}, result |-> <<>>]).result

\* the elements of c whose length is n, in the order of c
RECURSIVE OfLen(_, _)
OfLen(c, n) ==
    IF c = <<>> THEN <<>>
    ELSE (IF Len(Head(c)) = n THEN <<Head(c)>> ELSE <<>>) \o OfLen(Tail(c), n)

Shuffles(g) ==
    {[i \in 1..Len(g) |-> g[p[i]]] : p \in PermsOf(1..Len(g))}

\* sort.Slice(candidates, len(candidates[i]) > len(candidates[j])) is not
\* stable: the slices it can leave, longest first, from length n down
RECURSIVE SortBySizeDesc(_, _)
SortBySizeDesc(c, n) ==
    IF n < 0 THEN {<<>>}
    ELSE {g \o r : g \in Shuffles(OfLen(c, n)), r \in SortBySizeDesc(c, n - 1)}

MaxLen(c) ==
    IF c = <<>> THEN 0
    ELSE CHOOSE n \in {Len(c[i]) : i \in DOMAIN c} :
             \A i \in DOMAIN c : Len(c[i]) <= n

\* (faulty variant of DropContaining) the test is turned round: x.Contains(candidates[i])
RECURSIVE DropContained(_, _)
DropContained(c, x) ==
    IF c = <<>> THEN <<>>
    ELSE (IF ~Contains(x, Head(c)) THEN <<Head(c)>> ELSE <<>>)
         \o DropContained(Tail(c), x)

\* the candidates that do not contain x, copied forward
RECURSIVE DropContaining(_, _)
DropContaining(c, x) ==
    IF c = <<>> THEN <<>>
    ELSE (IF ~Contains(Head(c), x) THEN <<Head(c)>> ELSE <<>>)
         \o DropContaining(Tail(c), x)

\* the loop "for len(candidates) > 0" of filterContainingKeys
RECURSIVE filterLoop(_, _)
filterLoop(c, result) ==
    IF Len(c) = 0 THEN result
    ELSE LET n == Len(c)
             x == c[n]
         IN  filterLoop(DropContaining(SubSeq(c, 1, n - 1), x),
                        Append(result, x))

\* filterContainingKeys: the lists it can return
filterContainingKeys(c) ==
    IF Len(c) <= 1 THEN {c}
    ELSE {filterLoop(q, <<>>) : q \in SortBySizeDesc(c, MaxLen(c))}

CandidateKeysBF(as, deps) ==
    filterContainingKeys(enumerateCandidateKeys(as, deps))

-----------------------------------------------------------------------------
(* The FD algebra *)

\* how often x occurs in the slice other
Count(x, other) == Cardinality({i \in DOMAIN other : other[i] = x})

RECURSIVE CountAll(_, _)
CountAll(x, others) ==
    IF others = <<>> THEN 0
    ELSE Count(x, Head(others)) + CountAll(x, Tail(others))

\* AttrSet.Intersection(others...): inter[x] starts at 1 for the members of s
\* and is raised once per occurrence of x in an argument; the members whose
\* count is len(others)+1 are returned, in the map's iteration order
\* (faulty variant of Intersection) "n := 2": the count of one argument set
IntersectionOfOne(s, others) ==
    PermsOf({x \in Members(s) : 1 + CountAll(x, others) = 2})

Intersection(s, others) ==
    PermsOf({x \in Members(s) : 1 + CountAll(x, others) = Len(others) + 1})

\* the length of every slice of a set of equally long slices
LenOf(S) == Len(CHOOSE q \in S : TRUE)

\* a call's result: the FD (or list) returned and the applicable flag
Result(v, ok) == [val |-> v, ok |-> ok]

Nil == <<>>

\* (faulty variant of TransitiveWith) the first test compares with len(fd.Right)
TransitiveWithWrongLen(fd, other) ==
    LET right2Left == Intersection(fd.Right, <<other.Left>>)
        left2Right == Intersection(other.Right, <<fd.Left>>)
    IN  IF LenOf(right2Left) = Len(fd.Right)
        THEN Result(FD(AddAll(<<>>, <<fd.Left>>), AddAll(<<>>, <<other.Right>>)), TRUE)
        ELSE IF LenOf(left2Right) = Len(fd.Left)
        THEN Result(FD(AddAll(<<>>, <<other.Left>>), AddAll(<<>>, <<fd.Right>>)), TRUE)
        ELSE Result(Nil, FALSE)

\* FuncDep.TransitiveWith
TransitiveWith(fd, other) ==
    LET right2Left == Intersection(fd.Right, <<other.Left>>)
        left2Right == Intersection(other.Right, <<fd.Left>>)
    IN  IF LenOf(right2Left) = Len(other.Left)
        THEN Result(FD(AddAll(<<>>, <<fd.Left>>), AddAll(<<>>, <<other.Right>>)), TRUE)
        ELSE IF LenOf(left2Right) = Len(fd.Left)
        THEN Result(FD(AddAll(<<>>, <<other.Left>>), AddAll(<<>>, <<fd.Right>>)), TRUE)
        ELSE Result(Nil, FALSE)

\* (faulty variant of Augment) a is added to the right side only
AugmentRightOnly(fd, a) ==
    Result(FD(AddAll(<<>>, <<fd.Left>>),
              Add(AddAll(<<>>, <<fd.Right>>), a)), TRUE)

\* FuncDep.Augment
Augment(fd, a) ==
    Result(FD(Add(AddAll(<<>>, <<fd.Left>>), a),
              Add(AddAll(<<>>, <<fd.Right>>), a)), TRUE)

\* (faulty variant of Decompose) "if len(fd.Right) <= 1"
DecomposeAtMostOne(fd) ==
    IF Len(fd.Right) <= 1 THEN Result(Nil, FALSE)
    ELSE Result([i \in 1..Len(fd.Right) |->
                    FD(AddAll(<<>>, <<fd.Left>>), Add(<<>>, fd.Right[i]))], TRUE)

\* FuncDep.Decompose: one FD per entry of fd.Right, in order; results stays
\* nil when fd.Right is empty
Decompose(fd) ==
    IF Len(fd.Right) = 1 THEN Result(Nil, FALSE)
    ELSE Result([i \in 1..Len(fd.Right) |->
                    FD(AddAll(<<>>, <<fd.Left>>), Add(<<>>, fd.Right[i]))], TRUE)

\* FuncDep.Compose
Compose(fd, other) ==
    Result(FD(AddAll(<<>>, <<fd.Left, other.Left>>),
              AddAll(<<>>, <<fd.Right, other.Right>>)), TRUE)

\* (faulty variant of FuncDepUnion) the loop over other.Left is left out
FuncDepUnionUnchecked(fd, other) ==
    Result(FD(AddAll1(<<>>, fd.Left),
              AddAll(<<>>, <<fd.Right, other.Right>>)), TRUE)

\* FuncDep.Union: res.Left takes the entries of fd.Left by Add, chk holds
\* them; an entry of other.Left that chk lacks ends the call
FuncDepUnion(fd, other) ==
    IF \E i \in DOMAIN other.Left : other.Left[i] \notin Members(fd.Left)
    THEN Result(Nil, FALSE)
    ELSE Result(FD(AddAll1(<<>>, fd.Left),
                   AddAll(<<>>, <<fd.Right, other.Right>>)), TRUE)

-----------------------------------------------------------------------------
(* Inputs *)

SeqsUpTo(S, n) == UNION {[1..k -> S] : k \in 0..n}

\* the sides a parsed or hand-built FD can have: any order, duplicates too
AllSides == SeqsUpTo(Names, MaxSide)

\* one slice per attribute set: sorted, no duplicates
SetSides == {s \in AllSides : ~HasDup(s) /\ SortAttrs(s) = s}

\* the FDs stored in a relation, and the seed FDs handed to Closure
RelFDs == {FD(l, r) : l \in SetSides, r \in SetSides}

SeedFDs == {FD(l, r) : l \in AllSides, r \in SetSides}

RelFDLists == SeqsUpTo(RelFDs, MaxFDs)

AllNames == <<AttrA, AttrB, AttrAB>>

\* a fourth name, "C", for the calls that do not go through a relation
AttrC == <<67>>

AlgNames == Names \cup {AttrC}

AlgSides == SeqsUpTo(AlgNames, MaxSide)

-----------------------------------------------------------------------------
(* Specification of Closure and Closures on a populated relation *)

InitClosure ==
    /\ attrs = AllNames
    /\ fds \in RelFDLists
    /\ op = "new"
    /\ arg = <<>>
    /\ out = <<>>
    /\ loop = <<>>

\* the caller drops the last result; the next call starts from here
Return ==
    /\ op # "new"
    /\ op' = "new"
    /\ arg' = <<>>
    /\ out' = <<>>
    /\ UNCHANGED <<attrs, fds, loop>>

CallClosure ==
    /\ op = "new"
    /\ \E fd \in SeedFDs :
        /\ op' = "Closure"
        /\ arg' = fd
        /\ out' = Closure(fds, fd)
        /\ UNCHANGED <<attrs, fds, loop>>

CallClosures ==
    /\ op = "new"
    /\ op' = "Closures"
    /\ arg' = <<>>
    /\ out' = Closures(fds)
    /\ UNCHANGED <<attrs, fds, loop>>

NextClosure == CallClosure \/ CallClosures \/ Return

SpecClosure == InitClosure /\ [][NextClosure]_vars

-----------------------------------------------------------------------------
(* Specification of the candidate-key strategies on a populated relation *)

\* a populated relation has at least one attribute
AttrLists == SeqsUpTo(Names, MaxAttrs) \ {<<>>}

InitKeys ==
    /\ attrs \in AttrLists
    /\ fds \in RelFDLists
    /\ op = "new"
    /\ arg = <<>>
    /\ out = <<>>
    /\ loop = <<>>

CallCandidateKeys ==
    /\ op = "new"
    /\ op' = "CandidateKeys"
    /\ arg' = <<>>
    /\ out' = CandidateKeys(attrs, fds)
    /\ UNCHANGED <<attrs, fds, loop>>

CallCandidateKeysAlt ==
    /\ op = "new"
    /\ op' = "CandidateKeysAlt"
    /\ arg' = <<>>
    /\ out' \in CandidateKeysAlt(attrs, fds)
    /\ UNCHANGED <<attrs, fds, loop>>

CallCandidateKeysBF ==
    /\ op = "new"
    /\ op' = "CandidateKeysBF"
    /\ arg' = <<>>
    /\ out' \in CandidateKeysBF(attrs, fds)
    /\ UNCHANGED <<attrs, fds, loop>>

NextKeys ==
    \/ CallCandidateKeys
    \/ CallCandidateKeysAlt
    \/ CallCandidateKeysBF
    \/ Return

SpecKeys == InitKeys /\ [][NextKeys]_vars

-----------------------------------------------------------------------------
(* Specification of the minimality filter, alone and inside CandidateKeysBF *)

\* one sorted slice per subset of Names
CandSets ==
    {s \in SeqsUpTo(Names, Cardinality(Names)) : ~HasDup(s) /\ SortAttrs(s) = s}

CandLists == SeqsUpTo(CandSets, MaxCands)

InitFilter ==
    /\ attrs = AllNames
    /\ fds \in SeqsUpTo(RelFDs, 1)
    /\ op = "new"
    /\ arg = <<>>
    /\ out = <<>>
    /\ loop = <<>>

CallFilterContainingKeys ==
    /\ op = "new"
    /\ \E c \in CandLists :
        /\ op' = "filterContainingKeys"
        /\ arg' = c
        /\ out' \in filterContainingKeys(c)
        /\ UNCHANGED <<attrs, fds, loop>>

NextFilter == CallFilterContainingKeys \/ CallCandidateKeysBF \/ Return

SpecFilter == InitFilter /\ [][NextFilter]_vars

-----------------------------------------------------------------------------
(* Specification of one AttrSet, empty at first, under its operations *)

\* argument sets of any shape, and lists of up to MaxArgs of them
ArgLists == SeqsUpTo(AlgSides, MaxArgs)

\* argument sets without a repeated entry
SetArgLists == SeqsUpTo({q \in AlgSides : ~HasDup(q)}, MaxArgs)

InitAttrSet ==
    /\ attrs = <<>>
    /\ fds = <<>>
    /\ op = "new"
    /\ arg = <<>>
    /\ out = <<>>
    /\ loop = <<>>

CallAdd ==
    /\ op = "new"
    /\ \E a \in AlgNames :
        /\ op' = "Add"
        /\ arg' = a
        /\ out' = AddOk(attrs, a)
        /\ attrs' = Add(attrs, a)
        /\ UNCHANGED <<fds, loop>>

CallAddAll ==
    /\ op = "new"
    /\ \E others \in ArgLists :
        /\ op' = "AddAll"
        /\ arg' = others
        /\ out' = <<>>
        /\ attrs' = AddAll(attrs, others)
        /\ UNCHANGED <<fds, loop>>

CallRemove ==
    /\ op = "new"
    /\ \E a \in AlgNames :
        /\ op' = "Remove"
        /\ arg' = a
        /\ out' = RemoveOk(attrs, a)
        /\ attrs' = Remove(attrs, a)
        /\ UNCHANGED <<fds, loop>>

CallAttrUnion ==
    /\ op = "new"
    /\ \E others \in SetArgLists :
        /\ op' = "Union"
        /\ arg' = others
        /\ out' = Union(attrs, others)
        /\ UNCHANGED <<attrs, fds, loop>>

CallIntersection ==
    /\ op = "new"
    /\ \E others \in SetArgLists :
        /\ op' = "Intersection"
        /\ arg' = others
        /\ out' \in Intersection(attrs, others)
        /\ UNCHANGED <<attrs, fds, loop>>

CallDifference ==
    /\ op = "new"
    /\ \E others \in SetArgLists :
        /\ op' = "Difference"
        /\ arg' = others
        /\ out' \in Difference(attrs, others)
        /\ UNCHANGED <<attrs, fds, loop>>

NextAttrSet ==
    \/ CallAdd
    \/ CallAddAll
    \/ CallRemove
    \/ CallAttrUnion
    \/ CallIntersection
    \/ CallDifference
    \/ Return

SpecAttrSet == InitAttrSet /\ [][NextAttrSet]_vars

-----------------------------------------------------------------------------
(* Specification of the FD algebra *)

AlgFDs == {FD(l, r) : l \in AlgSides, r \in AlgSides}

InitAlgebra ==
    /\ attrs = AllNames
    /\ fds = <<>>
    /\ op = "new"
    /\ arg = <<>>
    /\ out = <<>>
    /\ loop = <<>>

CallTransitiveWith ==
    /\ op = "new"
    /\ \E fd \in AlgFDs, other \in AlgFDs :
        /\ op' = "TransitiveWith"
        /\ arg' = <<fd, other>>
        /\ out' = TransitiveWith(fd, other)
        /\ UNCHANGED <<attrs, fds, loop>>

CallAugment ==
    /\ op = "new"
    /\ \E fd \in AlgFDs, a \in AlgNames :
        /\ op' = "Augment"
        /\ arg' = <<fd, a>>
        /\ out' = Augment(fd, a)
        /\ UNCHANGED <<attrs, fds, loop>>

CallDecompose ==
    /\ op = "new"
    /\ \E fd \in AlgFDs :
        /\ op' = "Decompose"
        /\ arg' = <<fd>>
        /\ out' = Decompose(fd)
        /\ UNCHANGED <<attrs, fds, loop>>

CallCompose ==
    /\ op = "new"
    /\ \E fd \in AlgFDs, other \in AlgFDs :
        /\ op' = "Compose"
        /\ arg' = <<fd, other>>
        /\ out' = Compose(fd, other)
        /\ UNCHANGED <<attrs, fds, loop>>

CallUnion ==
    /\ op = "new"
    /\ \E fd \in AlgFDs, other \in AlgFDs :
        /\ op' = "Union"
        /\ arg' = <<fd, other>>
        /\ out' = FuncDepUnion(fd, other)
        /\ UNCHANGED <<attrs, fds, loop>>

NextAlgebra ==
    \/ CallTransitiveWith
    \/ CallAugment
    \/ CallDecompose
    \/ CallCompose
    \/ CallUnion
    \/ Return

SpecAlgebra == InitAlgebra /\ [][NextAlgebra]_vars

-----------------------------------------------------------------------------
(* The same operations on Go's memory, to follow what they share and write. *)
(* m.arrs holds the backing arrays (each as long as its capacity), m.objs   *)
(* the FuncDep objects r.FuncDeps and the results point to. A slice is the *)
(* number of its array and its length (every slice here starts at offset   *)
(* 0); array 0 is the nil slice's.                                          *)

NilSlice == [arr |-> 0, len |-> 0]

\* the zero value of Attr, which fills the unused part of a grown array
ZeroAttr == <<>>

\* a call's effect: the memory after it and the value returned
Effect(m, v) == [m |-> m, v |-> v]

Elems(m, s) == IF s.len = 0 THEN <<>> ELSE SubSeq(m.arrs[s.arr], 1, s.len)

Cap(m, s) == IF s.arr = 0 THEN 0 ELSE Len(m.arrs[s.arr])

\* append(s, a): in place while the capacity lasts, else into a new array of
\* twice the capacity (of capacity 1 from an empty one)
AppendH(m, s, a) ==
    IF s.len < Cap(m, s)
    THEN Effect([m EXCEPT !.arrs[s.arr][s.len + 1] = a],
                [arr |-> s.arr, len |-> s.len + 1])
    ELSE LET grown == IF s.len = 0 THEN 1 ELSE 2 * s.len
             array == Elems(m, s) \o <<a>>
                          \o [i \in 1..(grown - s.len - 1) |-> ZeroAttr]
         IN  Effect([m EXCEPT !.arrs = Append(@, array)],
                    [arr |-> Len(m.arrs) + 1, len |-> s.len + 1])

\* AttrSet.Add on the slice s
AddH(m, s, a) ==
    IF \E i \in 1..s.len : m.arrs[s.arr][i] = a
    THEN [m |-> m, v |-> s, ok |-> FALSE]
    ELSE Bind(AppendH(m, s, a),
              LAMBDA r : [m |-> r.m, v |-> r.v, ok |-> TRUE])

\* AttrSet.AddAll: the entries of other from index i on, read as the loop
\* reaches them
RECURSIVE AddAll1H(_, _, _, _)
AddAll1H(m, s, other, i) ==
    IF i > other.len THEN Effect(m, s)
    ELSE Bind(AddH(m, s, m.arrs[other.arr][i]),
              LAMBDA r : AddAll1H(r.m, r.v, other, i + 1))

RECURSIVE AddAllH(_, _, _)
AddAllH(m, s, others) ==
    IF others = <<>> THEN Effect(m, s)
    ELSE Bind(AddAll1H(m, s, Head(others), 1),
              LAMBDA r : AddAllH(r.m, r.v, Tail(others)))

\* AttrSet.Remove on the slice s: the swap is written into the array
RemoveH(m, s, a) ==
    IF ~(\E i \in 1..s.len : m.arrs[s.arr][i] = a) THEN Effect(m, s)
    ELSE LET i == CHOOSE k \in 1..s.len :
                      /\ m.arrs[s.arr][k] = a
                      /\ \A n \in 1..(k - 1) : m.arrs[s.arr][n] # a
             j == s.len
         IN  IF j = 1 THEN Effect(m, [arr |-> s.arr, len |-> 0])
             ELSE Effect([m EXCEPT !.arrs[s.arr] =
                              [m.arrs[s.arr] EXCEPT ![i] = m.arrs[s.arr][j],
                                                    ![j] = m.arrs[s.arr][i]]],
                         [arr |-> s.arr, len |-> j - 1])

ContainsH(m, s, other) ==
    \A i \in 1..other.len : \E j \in 1..s.len :
        m.arrs[s.arr][j] = m.arrs[other.arr][i]

\* AttrSet.String: sort.Slice sorts the array of s in place
StringH(m, s) ==
    IF s.len = 0 THEN Effect(m, <<>>)
    ELSE Bind(SortAttrs(Elems(m, s)),
              LAMBDA sorted :
                  Effect([m EXCEPT !.arrs[s.arr] =
                              sorted \o SubSeq(@, s.len + 1, Len(@))],
                         Join(sorted)))

\* &FuncDep{...}: a new object
NewFD(m, l, r) ==
    Effect([m EXCEPT !.objs = Append(@, FD(l, r))], Len(m.objs) + 1)

\* Relation.Closure, one pass over r.FuncDeps (deps: their objects) from
\* index i on
RECURSIVE ClosurePassH(_, _, _, _)
ClosurePassH(m, deps, right, i) ==
    IF i > Len(deps) THEN Effect(m, right)
    ELSE LET other == m.objs[deps[i]]
         IN  Bind(IF ContainsH(m, right, other.Left)
                  THEN AddAllH(m, right, <<other.Right>>)
                  ELSE Effect(m, right),
                  LAMBDA r : ClosurePassH(r.m, deps, r.v, i + 1))

RECURSIVE ClosureLoopH(_, _, _, _, _)
ClosureLoopH(m, deps, right, lastN, n) ==
    IF n = lastN THEN Effect(m, right)
    ELSE Bind(ClosurePassH(m, deps, right, 1),
              LAMBDA r : ClosureLoopH(r.m, deps, r.v, n, r.v.len))

\* (faulty variant of ClosureH) clofd.Left = fd.Left: the slice is shared
ClosureHSharesLeft(m, deps, fd) ==
    Bind(AddAllH(m, NilSlice, <<m.objs[fd].Left, m.objs[fd].Right>>),
         LAMBDA right :
             Bind(ClosureLoopH(right.m, deps, right.v, 0, right.v.len),
                  LAMBDA closed : NewFD(closed.m, m.objs[fd].Left, closed.v)))

\* Relation.Closure of the FuncDep object fd: the new object it returns
ClosureH(m, deps, fd) ==
    Bind(AddAllH(m, NilSlice, <<m.objs[fd].Left>>),
         LAMBDA left :
             Bind(AddAllH(left.m, NilSlice,
                          <<m.objs[fd].Left, m.objs[fd].Right>>),
                  LAMBDA right :
                      Bind(ClosureLoopH(right.m, deps, right.v, 0, right.v.len),
                           LAMBDA closed : NewFD(closed.m, left.v, closed.v))))

\* Relation.Closures: res[i] = r.Closure(fd), from index i on
RECURSIVE ClosuresLoopH(_, _, _, _)
ClosuresLoopH(m, deps, i, res) ==
    IF i > Len(deps) THEN Effect(m, res)
    ELSE Bind(ClosureH(m, deps, deps[i]),
              LAMBDA c : ClosuresLoopH(c.m, deps, i + 1, Append(res, c.v)))

ClosuresH(m, deps) == ClosuresLoopH(m, deps, 1, <<>>)

\* Relation.CandidateKeys: ckeys holds the slices cfd.Left themselves
RECURSIVE CandidateKeysLoopH(_, _, _, _)
CandidateKeysLoopH(m, as, clo, i) ==
    IF i > Len(clo) THEN <<>>
    ELSE (IF m.objs[clo[i]].Right.len = as.len
          THEN <<m.objs[clo[i]].Left>> ELSE <<>>)
         \o CandidateKeysLoopH(m, as, clo, i + 1)

CandidateKeysH(m, as, deps) ==
    Bind(ClosuresH(m, deps),
         LAMBDA clo : {Effect(clo.m, CandidateKeysLoopH(clo.m, as, clo.v, 1))})

\* cfd.Left.Add(diff[0]), cfd.Left.Add(diff[1]): written into the object cfd
AltKeyH(m, cfd, diff) ==
    Bind(IF Len(diff) > 0 THEN AddH(m, m.objs[cfd].Left, diff[1])
         ELSE Effect(m, m.objs[cfd].Left),
         LAMBDA l1 :
             Bind(IF Len(diff) > 1 THEN AddH(l1.m, l1.v, diff[2]) ELSE l1,
                  LAMBDA l2 :
                      Effect([l2.m EXCEPT !.objs[cfd].Left = l2.v], l2.v)))

\* Relation.CandidateKeysAlt from closure i on: what it can return, one
\* outcome per order Difference can give diff in
RECURSIVE CandidateKeysAltLoopH(_, _, _, _, _)
CandidateKeysAltLoopH(m, as, clo, i, ckeys) ==
    IF i > Len(clo) THEN {Effect(m, ckeys)}
    ELSE IF m.objs[clo[i]].Right.len >= as.len - 2
    THEN UNION {Bind(AltKeyH(m, clo[i], diff),
                     LAMBDA k : CandidateKeysAltLoopH(k.m, as, clo, i + 1,
                                                      Append(ckeys, k.v))) :
                    diff \in Difference(Elems(m, as),
                                        <<Elems(m, m.objs[clo[i]].Right)>>)}
    ELSE CandidateKeysAltLoopH(m, as, clo, i + 1, ckeys)

CandidateKeysAltH(m, as, deps) ==
    Bind(ClosuresH(m, deps),
         LAMBDA clo : CandidateKeysAltLoopH(clo.m, as, clo.v, 1, <<>>))

\* check(a) of enumerateCandidateKeys; st holds the memory m, hits and the
\* list result. a.String() sorts the array a shares with recurBF's z.
checkH(st, a, as, clos) ==
    Bind(StringH(st.m, a), LAMBDA key :
        IF key.v \in st.hits THEN [st EXCEPT !.m = key.m]
        ELSE Bind(AddAllH(key.m, NilSlice, <<a>>), LAMBDA right :
             Bind(ClosureLoopH(right.m, clos, right.v, 0, right.v.len),
                  LAMBDA closed :
                 IF closed.v.len = as.len
                 THEN Bind(AddAllH(closed.m, NilSlice, <<a>>), LAMBDA x :
                          [m |-> x.m,
                           hits |-> st.hits \cup {key.v},
                           result |-> Append(st.result, x.v)])
                 ELSE [m |-> closed.m,
                       hits |-> st.hits \cup {key.v},
                       result |-> st.result])))

RECURSIVE recurBFH(_, _, _, _, _)
RECURSIVE recurBFLoopH(_, _, _, _, _, _)
\* the loop "for _, a1 := range r.Attrs" of recurBF from index i on; a1 is
\* read from the array of r.Attrs as the loop reaches it
recurBFLoopH(st, as, clos, z, i, nremain) ==
    IF i > as.len THEN st
    ELSE LET a1 == st.m.arrs[as.arr][i]
         IN  Bind(AddH(st.m, z, a1), LAMBDA added :
             IF added.ok
             THEN Bind(checkH([st EXCEPT !.m = added.m], added.v, as, clos),
                       LAMBDA st1 :
                  Bind(IF nremain > 1
                       THEN recurBFH(st1, as, clos, added.v, nremain - 1)
                       ELSE st1,
                       LAMBDA st2 :
                  Bind(RemoveH(st2.m, added.v, a1), LAMBDA removed :
                       recurBFLoopH([st2 EXCEPT !.m = removed.m], as, clos,
                                    removed.v, i + 1, nremain))))
             ELSE recurBFLoopH(st, as, clos, z, i + 1, nremain))

recurBFH(st, as, clos, x, nremain) ==
    Bind(AddAllH(st.m, NilSlice, <<x>>),
         LAMBDA z : recurBFLoopH([st EXCEPT !.m = z.m], as, clos, z.v, 1,
                                 nremain))

enumerateCandidateKeysH(m, as, deps) ==
    Bind(ClosuresH(m, deps),
         LAMBDA clos : recurBFH([m |-> clos.m, hits |-> {}, result |-> <<>>],
                                as, clos.v, NilSlice, as.len))

\* filterContainingKeys on the list of slices: the list is the caller's own,
\* its slices are only read
RECURSIVE OfLenH(_, _)
OfLenH(c, n) ==
    IF c = <<>> THEN <<>>
    ELSE (IF Head(c).len = n THEN <<Head(c)>> ELSE <<>>) \o OfLenH(Tail(c), n)

RECURSIVE SortBySizeDescH(_, _)
SortBySizeDescH(c, n) ==
    IF n < 0 THEN {<<>>}
    ELSE {g \o r : g \in Shuffles(OfLenH(c, n)), r \in SortBySizeDescH(c, n - 1)}

RECURSIVE DropContainingH(_, _, _)
DropContainingH(m, c, x) ==
    IF c = <<>> THEN <<>>
    ELSE (IF ~ContainsH(m, Head(c), x) THEN <<Head(c)>> ELSE <<>>)
         \o DropContainingH(m, Tail(c), x)

RECURSIVE filterLoopH(_, _, _)
filterLoopH(m, c, result) ==
    IF Len(c) = 0 THEN result
    ELSE filterLoopH(m, DropContainingH(m, SubSeq(c, 1, Len(c) - 1), c[Len(c)]),
                     Append(result, c[Len(c)]))

filterContainingKeysH(m, c) ==
    IF Len(c) <= 1 THEN {c}
    ELSE {filterLoopH(m, q, <<>>) :
             q \in SortBySizeDescH(c, MaxLen([i \in DOMAIN c |-> Elems(m, c[i])]))}

CandidateKeysBFH(m, as, deps) ==
    Bind(enumerateCandidateKeysH(m, as, deps),
         LAMBDA st : {Effect(st.m, keys) :
                         keys \in filterContainingKeysH(st.m, st.result)})

-----------------------------------------------------------------------------
(* Specification of the calls on a relation held in memory. attrs is the   *)
(* slice r.Attrs, fds the objects of r.FuncDeps, loop the memory m and the *)
(* number of arrays and objects the relation was built with.               *)

\* a slice built by append, entry by entry, as the parser builds it
RECURSIVE AllocH(_, _, _)
AllocH(m, s, q) ==
    IF q = <<>> THEN Effect(m, s)
    ELSE Bind(AppendH(m, s, Head(q)),
              LAMBDA r : AllocH(r.m, r.v, Tail(q)))

\* a FuncDep object with the sides of fd
BuildFD(m, fd) ==
    Bind(AllocH(m, NilSlice, fd.Left), LAMBDA l :
         Bind(AllocH(l.m, NilSlice, fd.Right), LAMBDA r :
              NewFD(r.m, l.v, r.v)))

RECURSIVE BuildFDs(_, _, _)
BuildFDs(m, deps, ids) ==
    IF deps = <<>> THEN Effect(m, ids)
    ELSE Bind(BuildFD(m, Head(deps)),
              LAMBDA o : BuildFDs(o.m, Tail(deps), Append(ids, o.v)))

\* the relation with the attributes as and the FDs deps
BuildRelation(as, deps) ==
    Bind(AllocH([arrs |-> <<>>, objs |-> <<>>], NilSlice, as), LAMBDA a :
         Bind(BuildFDs(a.m, deps, <<>>), LAMBDA d :
              [m |-> d.m, attrs |-> a.v, fds |-> d.v]))

\* Attrs without a repeated name; FDs that need not stay within Attrs
FrameAttrLists == {q \in AttrLists : ~HasDup(q)}

FrameFDs == {FD(l, r) : l, r \in SeqsUpTo(AlgNames, MaxLoopSide)}

FrameFDLists == SeqsUpTo(FrameFDs, MaxFDs)

InitFrame ==
    /\ \E as \in FrameAttrLists, deps \in FrameFDLists :
           /\ attrs = BuildRelation(as, deps).attrs
           /\ fds = BuildRelation(as, deps).fds
           /\ loop = [m |-> BuildRelation(as, deps).m,
                      arrs0 |-> Len(BuildRelation(as, deps).m.arrs),
                      objs0 |-> Len(deps)]
    /\ op = "new"
    /\ arg = <<>>
    /\ out = <<>>

\* Closure of a seed FD the caller has just built
FrameClosure ==
    /\ op = "new"
    /\ \E seed \in FrameFDs :
           LET o == BuildFD(loop.m, seed)
               c == ClosureH(o.m, fds, o.v)
           IN  /\ op' = "Closure"
               /\ arg' = [id |-> o.v, fd |-> seed]
               /\ out' = c.v
               /\ loop' = [loop EXCEPT !.m = c.m]
    /\ UNCHANGED <<attrs, fds>>

FrameClosures ==
    /\ op = "new"
    /\ op' = "Closures"
    /\ arg' = <<>>
    /\ out' = ClosuresH(loop.m, fds).v
    /\ loop' = [loop EXCEPT !.m = ClosuresH(loop.m, fds).m]
    /\ UNCHANGED <<attrs, fds>>

FrameCandidateKeys ==
    /\ op = "new"
    /\ \E e \in CandidateKeysH(loop.m, attrs, fds) :
           /\ op' = "CandidateKeys"
           /\ arg' = <<>>
           /\ out' = e.v
           /\ loop' = [loop EXCEPT !.m = e.m]
    /\ UNCHANGED <<attrs, fds>>

FrameCandidateKeysAlt ==
    /\ op = "new"
    /\ \E e \in CandidateKeysAltH(loop.m, attrs, fds) :
           /\ op' = "CandidateKeysAlt"
           /\ arg' = <<>>
           /\ out' = e.v
           /\ loop' = [loop EXCEPT !.m = e.m]
    /\ UNCHANGED <<attrs, fds>>

FrameCandidateKeysBF ==
    /\ op = "new"
    /\ \E e \in CandidateKeysBFH(loop.m, attrs, fds) :
           /\ op' = "CandidateKeysBF"
           /\ arg' = <<>>
           /\ out' = e.v
           /\ loop' = [loop EXCEPT !.m = e.m]
    /\ UNCHANGED <<attrs, fds>>

\* the caller drops the result: what the call allocated is garbage
FrameReturn ==
    /\ op # "new"
    /\ op' = "new"
    /\ arg' = <<>>
    /\ out' = <<>>
    /\ loop' = [loop EXCEPT !.m = [arrs |-> SubSeq(@.arrs, 1, loop.arrs0),
                                   objs |-> SubSeq(@.objs, 1, loop.objs0)]]
    /\ UNCHANGED <<attrs, fds>>

NextFrame ==
    \/ FrameClosure
    \/ FrameClosures
    \/ FrameCandidateKeys
    \/ FrameCandidateKeysAlt
    \/ FrameCandidateKeysBF
    \/ FrameReturn

SpecFrame == InitFrame /\ [][NextFrame]_vars

-----------------------------------------------------------------------------
(* The loops of Closure and of the candidate-key strategies, step by step.  *)
(* loop holds the locals of the running call; a call starts from "idle",   *)
(* runs to "done" and the caller's Return makes the relation idle again.   *)

Idle == [pc |-> "idle"]

LoopSides == {s \in SetSides : Len(s) <= MaxLoopSide}

LoopFDs == {FD(l, r) : l \in LoopSides, r \in LoopSides}

LoopFDLists == SeqsUpTo(LoopFDs, MaxFDs)

\* the relation's attribute list: sorted, without duplicates
LoopAttrLists == {s \in AttrLists : ~HasDup(s) /\ SortAttrs(s) = s}

\* a Relation value before it is populated
InitLoop ==
    /\ attrs = <<>>
    /\ fds = <<>>
    /\ op = "new"
    /\ arg = <<>>
    /\ out = <<>>
    /\ loop = Idle

\* the relation's owner fills in Attrs and FuncDeps
Populate ==
    /\ attrs = <<>>
    /\ attrs' \in LoopAttrLists
    /\ fds' \in LoopFDLists
    /\ UNCHANGED <<op, arg, out, loop>>

\* Closure: the locals before the loop
ClosureStart ==
    /\ loop.pc = "idle"
    /\ op = "new"
    /\ attrs # <<>>
    /\ \E fd \in LoopFDs :
        LET right == AddAll(<<>>, <<fd.Left, fd.Right>>)
        IN  /\ op' = "Closure"
            /\ arg' = fd
            /\ loop' = [pc |-> "test",
                        left |-> AddAll(<<>>, <<fd.Left>>),
                        right |-> right,
                        lastN |-> 0,
                        n |-> Len(right),
                        i |-> 0,
                        before |-> right,
                        ran |-> FALSE]
    /\ UNCHANGED <<attrs, fds, out>>

\* Closure: the loop condition "n != lastN", and the return
ClosureTest ==
    /\ loop.pc = "test"
    /\ IF loop.n # loop.lastN
       THEN /\ loop' = [loop EXCEPT !.pc = "pass", !.i = 1,
                                    !.before = loop.right, !.ran = TRUE]
            /\ out' = out
       ELSE /\ loop' = [loop EXCEPT !.pc = "done"]
            /\ out' = FD(loop.left, loop.right)
    /\ UNCHANGED <<attrs, fds, op, arg>>

\* Closure: one iteration of "for _, other := range r.FuncDeps"
ClosurePassStep ==
    /\ loop.pc = "pass"
    /\ loop.i <= Len(fds)
    /\ loop' = [loop EXCEPT
                   !.right = IF Contains(loop.right, fds[loop.i].Left)
                             THEN AddAll(loop.right, <<fds[loop.i].Right>>)
                             ELSE loop.right,
                   !.i = loop.i + 1]
    /\ UNCHANGED <<attrs, fds, op, arg, out>>

\* (faulty variant of ClosurePassEnd) "lastN = n" is left out
ClosurePassEndKeepsLastN ==
    /\ loop.pc = "pass"
    /\ loop.i > Len(fds)
    /\ loop' = [loop EXCEPT !.pc = "test", !.n = Len(loop.right)]
    /\ UNCHANGED <<attrs, fds, op, arg, out>>

\* Closure: the end of a pass, "lastN = n; n = len(clofd.Right)"
ClosurePassEnd ==
    /\ loop.pc = "pass"
    /\ loop.i > Len(fds)
    /\ loop' = [loop EXCEPT !.pc = "test", !.lastN = loop.n,
                            !.n = Len(loop.right)]
    /\ UNCHANGED <<attrs, fds, op, arg, out>>

\* CandidateKeys and CandidateKeysAlt: the closures are computed, the loop
\* over them starts
KeysStart ==
    /\ loop.pc = "idle"
    /\ op = "new"
    /\ attrs # <<>>
    /\ \E name \in {"CandidateKeys", "CandidateKeysAlt"} :
        /\ op' = name
        /\ loop' = [pc |-> "keys", clo |-> Closures(fds), i |-> 1,
                    ckeys |-> <<>>]
    /\ UNCHANGED <<attrs, fds, arg, out>>

\* CandidateKeys: one iteration of "for _, cfd := range clo"
CandidateKeysStep ==
    /\ loop.pc = "keys"
    /\ op = "CandidateKeys"
    /\ loop.i <= Len(loop.clo)
    /\ loop' = [loop EXCEPT
                   !.ckeys = IF Len(loop.clo[loop.i].Right) = Len(attrs)
                             THEN Append(loop.ckeys, loop.clo[loop.i].Left)
                             ELSE loop.ckeys,
                   !.i = loop.i + 1]
    /\ UNCHANGED <<attrs, fds, op, arg, out>>

\* CandidateKeysAlt: one iteration of "for _, cfd := range clo"
CandidateKeysAltStep ==
    /\ loop.pc = "keys"
    /\ op = "CandidateKeysAlt"
    /\ loop.i <= Len(loop.clo)
    /\ LET cfd == loop.clo[loop.i]
       IN  IF Len(cfd.Right) >= Len(attrs) - 2
           THEN \E d \in Difference(attrs, <<cfd.Right>>) :
                    loop' = [loop EXCEPT !.ckeys = Append(loop.ckeys, AltKey(cfd, d)),
                                         !.i = loop.i + 1]
           ELSE loop' = [loop EXCEPT !.i = loop.i + 1]
    /\ UNCHANGED <<attrs, fds, op, arg, out>>

\* CandidateKeys and CandidateKeysAlt: "return ckeys"
KeysReturn ==
    /\ loop.pc = "keys"
    /\ loop.i > Len(loop.clo)
    /\ loop' = [pc |-> "done"]
    /\ out' = loop.ckeys
    /\ UNCHANGED <<attrs, fds, op, arg>>

\* one activation of recurBF: its slice z, the index of a1 in r.Attrs, its
\* budget, and whether it waits for the activation it called
Frame(z, i, nremain, calling) ==
    [z |-> z, i |-> i, nremain |-> nremain, calling |-> calling]

\* CandidateKeysBF: enumerateCandidateKeys up to the call r.recurBF(nil, ...)
BFStart ==
    /\ loop.pc = "idle"
    /\ op = "new"
    /\ attrs # <<>>
    /\ op' = "CandidateKeysBF"
    /\ loop' = [pc |-> "recur",
                clos |-> Closures(fds),
                st |-> [hits |-> {}, result |-> <<>>],
                stack |-> <<Frame(AddAll(<<>>, <<<<>>>>), 1, Len(attrs), FALSE)>>]
    /\ UNCHANGED <<attrs, fds, arg, out>>

\* recurBF: one iteration of "for _, a1 := range r.Attrs" up to the
\* recursive call, or to z.Remove(a1) when there is none: the locals after it
recurBFIteration(l, as) ==
    LET d == Len(l.stack)
        f == l.stack[d]
        z1 == SortAttrs(Append(f.z, as[f.i]))
        st1 == check(l.st, Append(f.z, as[f.i]), as, l.clos)
    IN  IF ~AddOk(f.z, as[f.i])
        THEN [l EXCEPT !.stack[d].i = f.i + 1]
        ELSE IF f.nremain > 1
        THEN [l EXCEPT
                 !.st = st1,
                 !.stack = Append(
                     [l.stack EXCEPT ![d] = Frame(z1, f.i, f.nremain, TRUE)],
                     Frame(AddAll(<<>>, <<z1>>), 1, f.nremain - 1, FALSE))]
        ELSE [l EXCEPT
                 !.st = st1,
                 !.stack[d] = Frame(Remove(z1, as[f.i]), f.i + 1, f.nremain, FALSE)]

BFRecurStep ==
    /\ loop.pc = "recur"
    /\ ~loop.stack[Len(loop.stack)].calling
    /\ loop.stack[Len(loop.stack)].i <= Len(attrs)
    /\ loop' = recurBFIteration(loop, attrs)
    /\ UNCHANGED <<attrs, fds, op, arg, out>>

\* recurBF returns to its caller, which removes a1 and goes on
BFRecurReturn ==
    /\ loop.pc = "recur"
    /\ Len(loop.stack) > 1
    /\ loop.stack[Len(loop.stack)].i > Len(attrs)
    /\ LET d == Len(loop.stack)
           g == loop.stack[d - 1]
       IN  loop' = [loop EXCEPT
                  !.stack = Append(SubSeq(loop.stack, 1, d - 2),
                                   Frame(Remove(g.z, attrs[g.i]), g.i + 1,
                                         g.nremain, FALSE))]
    /\ UNCHANGED <<attrs, fds, op, arg, out>>

\* the outermost recurBF returns; filterContainingKeys up to its loop:
\* the early return, or the sort
FilterStart ==
    /\ loop.pc = "recur"
    /\ Len(loop.stack) = 1
    /\ loop.stack[1].i > Len(attrs)
    /\ LET c == loop.st.result
       IN  IF Len(c) <= 1
           THEN /\ loop' = [pc |-> "done"]
                /\ out' = c
           ELSE /\ \E q \in SortBySizeDesc(c, MaxLen(c)) :
                       loop' = [pc |-> "filter", candidates |-> q, result |-> <<>>]
                /\ out' = out
    /\ UNCHANGED <<attrs, fds, op, arg>>

\* filterContainingKeys: one iteration of "for len(candidates) > 0"
FilterStep ==
    /\ loop.pc = "filter"
    /\ Len(loop.candidates) > 0
    /\ LET n == Len(loop.candidates)
           x == loop.candidates[n]
       IN  loop' = [loop EXCEPT
                       !.result = Append(loop.result, x),
                       !.candidates = DropContaining(SubSeq(loop.candidates, 1, n - 1), x)]
    /\ UNCHANGED <<attrs, fds, op, arg, out>>

\* filterContainingKeys: "return result"
FilterReturn ==
    /\ loop.pc = "filter"
    /\ Len(loop.candidates) = 0
    /\ loop' = [pc |-> "done"]
    /\ out' = loop.result
    /\ UNCHANGED <<attrs, fds, op, arg>>

\* the caller drops the result of the call that ended
LoopReturn ==
    /\ loop.pc = "done"
    /\ loop' = Idle
    /\ op' = "new"
    /\ arg' = <<>>
    /\ out' = <<>>
    /\ UNCHANGED <<attrs, fds>>

\* the steps of a call that runs
LoopStep ==
    \/ ClosureTest
    \/ ClosurePassStep
    \/ ClosurePassEnd
    \/ CandidateKeysStep
    \/ CandidateKeysAltStep
    \/ KeysReturn
    \/ BFRecurStep
    \/ BFRecurReturn
    \/ FilterStart
    \/ FilterStep
    \/ FilterReturn

NextLoop ==
    \/ Populate
    \/ ClosureStart
    \/ KeysStart
    \/ BFStart
    \/ LoopStep
    \/ LoopReturn

\* the program is sequential: a call that has started keeps running
SpecLoop == InitLoop /\ [][NextLoop]_vars /\ WF_vars(LoopStep)

-----------------------------------------------------------------------------
(* What the claims speak of: closed sets, superkeys, candidate keys *)

\* every FD of the relation mentions only attributes of Attrs
Validated(as, deps) ==
    \A i \in DOMAIN deps :
        Members(deps[i].Left) \cup Members(deps[i].Right) \subseteq Members(as)

\* T is closed under every FD of deps
IsClosed(T, deps) ==
    \A i \in DOMAIN deps :
        Members(deps[i].Left) \subseteq T => Members(deps[i].Right) \subseteq T

\* T is the least set that contains X and is closed under deps
IsLeastClosed(T, X, deps) ==
    /\ X \subseteq T
    /\ IsClosed(T, deps)
    /\ \A T2 \in SUBSET Names : (X \subseteq T2 /\ IsClosed(T2, deps)) => T \subseteq T2

\* X+, the closure of the attribute set X under deps
ClosureOf(X, deps) == CHOOSE T \in SUBSET Names : IsLeastClosed(T, X, deps)

IsSuperkey(K, as, deps) == ClosureOf(K, deps) = Members(as)

\* the candidate keys of the relation: the minimal superkeys within Attrs
TrueKeys(as, deps) ==
    {K \in SUBSET Members(as) :
        /\ IsSuperkey(K, as, deps)
        /\ \A K2 \in SUBSET K : K2 # K => ~IsSuperkey(K2, as, deps)}

\* a list of slices as a set of attribute sets
KeySets(keys) == {Members(keys[i]) : i \in DOMAIN keys}

\* the members with which Closure starts the right side
SeedOf(fd) == Members(fd.Left) \cup Members(fd.Right)

-----------------------------------------------------------------------------
(* Claims on Closure (SpecClosure) *)

\* C4: Closure(fd) returns an FD whose Left has the members of fd.Left and
\* whose Right is the least set that contains fd.Left and fd.Right and is
\* closed under every FD of the relation; the seed may have empty sides and
\* the relation FDs with an empty left side.
C4_ClosureIsLeastClosedSet ==
    op = "Closure" =>
        /\ Members(out.Left) = Members(arg.Left)
        /\ IsLeastClosed(Members(out.Right), SeedOf(arg), fds)

\* C5: Closure is idempotent: the closure of a closure has the same right
\* side members.
C5_ClosureIdempotent ==
    op = "Closure" =>
        Members(Closure(fds, out).Right) = Members(out.Right)

\* C5 witness: a closure that took more than one pass to reach.
C5_Witness ==
    /\ op = "Closure"
    /\ Members(ClosurePass(AddAll(<<>>, <<arg.Left, arg.Right>>), fds))
           # Members(out.Right)

\* C6: the right side of a closure does not depend on the order of the
\* relation's FD list, and so neither do the closures of the declared FDs
\* nor the key sets of CandidateKeys and CandidateKeysBF.
C6_ClosureOrderIndependent ==
    /\ op = "Closure" =>
           \A p \in Shuffles(fds) :
               Members(Closure(p, arg).Right) = Members(out.Right)
    /\ op = "Closures" =>
           \A p \in Shuffles(fds) :
               /\ {<<Members(c.Left), Members(c.Right)>> :
                       c \in {Closures(p)[i] : i \in DOMAIN p}}
                  = {<<Members(out[i].Left), Members(out[i].Right)>> :
                       i \in DOMAIN out}
               /\ KeySets(CandidateKeys(attrs, p))
                  = KeySets(CandidateKeys(attrs, fds))
               /\ {KeySets(k) : k \in CandidateKeysBF(attrs, p)}
                  = {KeySets(k) : k \in CandidateKeysBF(attrs, fds)}

\* C6 witness: a closure over two FDs where a single pass in list order and
\* a single pass in the reverse order add different members.
C6_Witness ==
    /\ op = "Closure"
    /\ Len(fds) = 2
    /\ LET right == AddAll(<<>>, <<arg.Left, arg.Right>>)
       IN  Members(ClosurePass(right, fds))
               # Members(ClosurePass(right, <<fds[2], fds[1]>>))

-----------------------------------------------------------------------------
(* Claims on the candidate-key strategies (SpecKeys) *)

\* C1: for a relation with duplicate-free Attrs and FDs over Attrs,
\* CandidateKeysBF returns, as a set of attribute sets, exactly the
\* candidate keys: the minimal subsets of Attrs whose closure is Attrs.
C1_BFReturnsExactlyTheCandidateKeys ==
    (op = "CandidateKeysBF" /\ ~HasDup(attrs) /\ Validated(attrs, fds)) =>
        KeySets(out) = TrueKeys(attrs, fds)

\* C2: for a relation with FDs over Attrs, every set returned by
\* CandidateKeys, CandidateKeysAlt or CandidateKeysBF is a superkey: its
\* closure under the relation's FDs is Attrs.
C2_ReturnedKeysAreSuperkeys ==
    (op \in {"CandidateKeys", "CandidateKeysAlt", "CandidateKeysBF"}
        /\ Validated(attrs, fds)) =>
        \A i \in DOMAIN out : IsSuperkey(Members(out[i]), attrs, fds)

\* C2 witness: CandidateKeysAlt returned a key made by adding the two
\* missing attributes to the left side of the only FD.
C2_Witness ==
    /\ op = "CandidateKeysAlt"
    /\ Validated(attrs, fds)
    /\ Len(fds) = 1
    /\ Len(out) = 1
    /\ Cardinality(Members(out[1])) = Cardinality(Members(fds[1].Left)) + 2

\* C7: for a relation with FDs over Attrs, every set returned by
\* CandidateKeys or CandidateKeysAlt contains (or is) a key returned by
\* CandidateKeysBF.
C7_StrategiesConsistentWithBF ==
    (op \in {"CandidateKeys", "CandidateKeysAlt"} /\ Validated(attrs, fds)) =>
        \A i \in DOMAIN out :
            \A bf \in CandidateKeysBF(attrs, fds) :
                \E j \in DOMAIN bf : Members(bf[j]) \subseteq Members(out[i])

\* the FDs of deps whose closure right side has exactly the members of as,
\* in list order
RECURSIVE QualifyingLefts(_, _, _)
QualifyingLefts(as, deps, all) ==
    IF deps = <<>> THEN <<>>
    ELSE (IF Members(Closure(all, Head(deps)).Right) = Members(as)
          THEN <<Head(deps).Left>> ELSE <<>>)
         \o QualifyingLefts(as, Tail(deps), all)

\* C9: CandidateKeys returns, in FD-list order and one entry per qualifying
\* FD, the left sides of the declared FDs whose closure right side has the
\* same members as Attrs, for every relation value, validated or not.
C9_CandidateKeysAreFullClosureLefts ==
    op = "CandidateKeys" =>
        LET want == QualifyingLefts(attrs, fds, fds)
        IN  /\ Len(out) = Len(want)
            /\ \A i \in DOMAIN out : Members(out[i]) = Members(want[i])

-----------------------------------------------------------------------------
(* Claims on the minimality filter (SpecFilter) *)

\* the subset-minimal attribute sets of a candidate list
MinimalOf(c) ==
    {Members(c[i]) : i \in {k \in DOMAIN c :
        \A j \in DOMAIN c : ~(Members(c[j]) \subseteq Members(c[k])
                               /\ Members(c[j]) # Members(c[k]))}}

\* C3: filterContainingKeys returns exactly the subset-minimal candidates,
\* each once, whatever duplicates and equal-size candidates the list holds;
\* so no key of CandidateKeysBF is a proper superset of another returned key
\* and every discarded candidate contains a returned key.
C3_FilterKeepsTheMinimalCandidates ==
    /\ op = "filterContainingKeys" =>
           /\ KeySets(out) = MinimalOf(arg)
           /\ \A i, j \in DOMAIN out :
                  i # j => Members(out[i]) # Members(out[j])
    /\ op = "CandidateKeysBF" =>
           /\ \A i, j \in DOMAIN out :
                  i # j => ~(Members(out[j]) \subseteq Members(out[i]))
           /\ \A c \in KeySets(enumerateCandidateKeys(attrs, fds)) :
                  \E j \in DOMAIN out : Members(out[j]) \subseteq c

\* C3 witness: the candidates {A,B}, {A}, {"A,B",B} are filtered to
\* {A}, {"A,B",B}.
C3_Witness ==
    /\ op = "filterContainingKeys"
    /\ arg = <<<<AttrA, AttrB>>, <<AttrA>>, <<AttrAB, AttrB>>>>
    /\ out = <<<<AttrA>>, <<AttrAB, AttrB>>>>

-----------------------------------------------------------------------------
(* Claims on the FD algebra (SpecAlgebra) *)

DupFreeFD(fd) == ~HasDup(fd.Left) /\ ~HasDup(fd.Right)

SameFD(f, l, r) == Members(f.Left) = Members(l) /\ Members(f.Right) = Members(r)

\* C10: for duplicate-free fd and other, TransitiveWith returns
\* fd.Left -> other.Right when other.Left is a subset of fd.Right, otherwise
\* other.Left -> fd.Right when fd.Left is a subset of other.Right, and is
\* not applicable exactly when neither holds.
C10_TransitiveWithOrientations ==
    (op = "TransitiveWith" /\ DupFreeFD(arg[1]) /\ DupFreeFD(arg[2])) =>
        LET fd == arg[1]
            other == arg[2]
            a == Members(other.Left) \subseteq Members(fd.Right)
            b == Members(fd.Left) \subseteq Members(other.Right)
        IN  /\ a => (out.ok /\ SameFD(out.val, fd.Left, other.Right))
            /\ (~a /\ b) => (out.ok /\ SameFD(out.val, other.Left, fd.Right))
            /\ out.ok <=> (a \/ b)

\* C10 witness: A -> B,"A,B" with B -> C yields A -> C.
C10_Witness ==
    /\ op = "TransitiveWith"
    /\ arg = <<FD(<<AttrA>>, <<AttrB, AttrAB>>), FD(<<AttrB>>, <<AttrC>>)>>
    /\ out = Result(FD(<<AttrA>>, <<AttrC>>), TRUE)

C12_UnionFailsUnlessLeftsMatch ==
    op = "Union" =>
        (Members(arg[1].Left) # Members(arg[2].Left) => ~out.ok)

C14_DecomposeOnlyWhenSeveralRight ==
    (op = "Decompose" /\ ~HasDup(arg[1].Right) /\ out.ok) =>
        /\ Len(arg[1].Right) > 1
        /\ Len(out.val) = Len(arg[1].Right)
        /\ \A a \in Members(arg[1].Right) :
               \E i \in DOMAIN out.val :
                   /\ Members(out.val[i].Left) = Members(arg[1].Left)
                   /\ out.val[i].Right = <<a>>

\* X -> Y follows from the FDs of deps: every set that contains X and is
\* closed under deps contains Y
Implied(f, deps) ==
    \A T \in SUBSET AlgNames :
        (Members(f.Left) \subseteq T /\ IsClosed(T, deps)) =>
            Members(f.Right) \subseteq T

\* the operand FDs of an algebra call
Operands ==
    IF op \in {"Augment", "Decompose"} THEN <<arg[1]>> ELSE <<arg[1], arg[2]>>

\* C17: whenever Augment, Compose, Union, TransitiveWith or Decompose is
\* applicable, every FD it returns follows from its operand FDs: the right
\* side lies in the closure of the left side under the operands alone.
C17_AlgebraIsSound ==
    /\ (op \in {"Augment", "Compose", "Union", "TransitiveWith"} /\ out.ok) =>
           Implied(out.val, Operands)
    /\ (op = "Decompose" /\ out.ok) =>
           \A i \in DOMAIN out.val : Implied(out.val[i], Operands)

\* C17 witness: the swapped orientation of TransitiveWith, A -> B with
\* C -> A,"A,B", has given C -> B.
C17_Witness ==
    /\ op = "TransitiveWith"
    /\ arg = <<FD(<<AttrA>>, <<AttrB>>), FD(<<AttrC>>, <<AttrA, AttrAB>>)>>
    /\ out = Result(FD(<<AttrC>>, <<AttrB>>), TRUE)

-----------------------------------------------------------------------------
(* Claims on AttrSet (SpecAttrSet) *)

\* what Add and Remove promise of one call, from the set before to the set
\* after it
C15_Step ==
    /\ op' = "Add" /\ op = "new" =>
           /\ out' = (arg' \notin Members(attrs))
           /\ arg' \in Members(attrs')
           /\ Members(attrs') \ {arg'} = Members(attrs) \ {arg'}
    /\ op' = "Remove" /\ op = "new" =>
           /\ out' = (arg' \in Members(attrs))
           /\ arg' \notin Members(attrs')
           /\ Members(attrs') \ {arg'} = Members(attrs) \ {arg'}

\* C15: from the empty AttrSet, after any sequence of Add, AddAll and Remove
\* the set has no duplicate; Add(a) returns true exactly when a was absent
\* and a is a member afterwards; Remove(a) returns true exactly when a was
\* present and a is absent afterwards; no other attribute's membership
\* changes.
C15_AttrSetKeepsNoDuplicates ==
    /\ [](~HasDup(attrs))
    /\ [][C15_Step]_vars

\* C15 witness: Remove of the first of four members has swapped the last
\* one into its place.
C15_Witness ==
    /\ op = "Remove"
    /\ arg = AttrA
    /\ out = TRUE
    /\ attrs = <<AttrC, AttrB, AttrAB>>

\* C16: for a duplicate-free s and zero, one or several duplicate-free
\* argument sets, Union has exactly the members of s and of the arguments,
\* Intersection the members of s that are in every argument, Difference the
\* members of s that are in no argument; each result is duplicate-free and
\* s keeps its members.
C16_SetAlgebraResults ==
    /\ op = "Union" =>
           /\ Members(out) = Members(attrs) \cup MembersOfAll(arg)
           /\ ~HasDup(out)
    /\ op = "Intersection" =>
           /\ Members(out) = {x \in Members(attrs) :
                                 \A i \in DOMAIN arg : x \in Members(arg[i])}
           /\ ~HasDup(out)
    /\ op = "Difference" =>
           /\ Members(out) = Members(attrs) \ MembersOfAll(arg)
           /\ ~HasDup(out)

\* C16 witness: the intersection of three members with two argument sets
\* is the one member they share.
C16_Witness ==
    /\ op = "Intersection"
    /\ Len(attrs) = 3
    /\ Len(arg) = 2
    /\ Len(arg[1]) = 2
    /\ Len(arg[2]) = 2
    /\ arg[1] # arg[2]
    /\ Len(out) = 1

-----------------------------------------------------------------------------
(* Claims on the relation in memory (SpecFrame) *)

\* the members of the slice s in the memory m
SetOf(m, s) == Members(Elems(m, s))

\* the sides of the FuncDep object id, as sets
FDSets(m, id) == [Left |-> SetOf(m, m.objs[id].Left),
                  Right |-> SetOf(m, m.objs[id].Right)]

\* a list of keys, as the set of its sets
KeySetsH(m, ks) == {SetOf(m, ks[i]) : i \in DOMAIN ks}

\* what the caller can see of the relation: the members of r.Attrs and of
\* the sides of every stored FD
RelationView ==
    [Attrs |-> SetOf(loop.m, attrs),
     FuncDeps |-> [i \in DOMAIN fds |-> FDSets(loop.m, fds[i])]]

\* the arrays and objects the relation and the seed are made of
RelationArrays == 1..loop.arrs0

SeedArrays ==
    IF op = "Closure"
    THEN {loop.m.objs[arg.id].Left.arr, loop.m.objs[arg.id].Right.arr}
    ELSE {}

\* the slice s shares no array with the relation or the seed
FreshSlice(s) == s.arr = 0 \/ s.arr \notin (RelationArrays \cup SeedArrays)

\* the FuncDep object id is a new one, and so are its sides
FreshFD(id) ==
    /\ id > loop.objs0
    /\ op = "Closure" => id # arg.id
    /\ FreshSlice(loop.m.objs[id].Left)
    /\ FreshSlice(loop.m.objs[id].Right)

\* the sets the operation o can return when called on the memory m (seed:
\* the FuncDep object Closure is called with)
Outcomes(o, m, seed) ==
    CASE o = "Closure" ->
             LET c == ClosureH(m, fds, seed) IN {FDSets(c.m, c.v)}
      [] o = "Closures" ->
             LET c == ClosuresH(m, fds)
             IN  {[i \in DOMAIN c.v |-> FDSets(c.m, c.v[i])]}
      [] o = "CandidateKeys" ->
             {KeySetsH(e.m, e.v) : e \in CandidateKeysH(m, attrs, fds)}
      [] o = "CandidateKeysAlt" ->
             {KeySetsH(e.m, e.v) : e \in CandidateKeysAltH(m, attrs, fds)}
      [] o = "CandidateKeysBF" ->
             {KeySetsH(e.m, e.v) : e \in CandidateKeysBFH(m, attrs, fds)}
      [] OTHER -> {}

\* the sets the call of this state returned
OutSets ==
    CASE op = "Closure" -> FDSets(loop.m, out)
      [] op = "Closures" -> [i \in DOMAIN out |-> FDSets(loop.m, out[i])]
      [] OTHER -> KeySetsH(loop.m, out)

\* every stored FD and r.Attrs name attributes of r.Attrs only, once each
FrameValidated ==
    \A i \in DOMAIN fds :
        /\ FDSets(loop.m, fds[i]).Left \subseteq SetOf(loop.m, attrs)
        /\ FDSets(loop.m, fds[i]).Right \subseteq SetOf(loop.m, attrs)

\* after a call: the seed is as the caller built it, what was returned is
\* new, and the same call made now can return the same sets, which are the
\* only ones it can return when the operation does not depend on map order
C18_Inv ==
    op # "new" =>
        /\ op = "Closure" =>
               /\ FDSets(loop.m, arg.id) = [Left |-> Members(arg.fd.Left),
                                            Right |-> Members(arg.fd.Right)]
               /\ FreshFD(out)
        /\ op = "Closures" => \A i \in DOMAIN out : FreshFD(out[i])
        /\ op \in {"CandidateKeys", "CandidateKeysAlt", "CandidateKeysBF"} =>
               \A i \in DOMAIN out : FreshSlice(out[i])
        /\ OutSets \in Outcomes(op, loop.m, IF op = "Closure" THEN arg.id ELSE 0)
        /\ (op # "CandidateKeysAlt" \/ FrameValidated) =>
               Outcomes(op, loop.m, IF op = "Closure" THEN arg.id ELSE 0)
                   = {OutSets}

\* in every step: the members of r.Attrs and of the stored FDs stay
C18_Step == RelationView' = RelationView

-----------------------------------------------------------------------------
(* Claims on termination (SpecLoop) *)

InClosureLoop == op = "Closure" /\ loop.pc \in {"test", "pass"}

\* in every state of a running call: the right side stays within Attrs when
\* the FDs and the seed mention only attributes of Attrs; after a pass the
\* loop goes on exactly if the pass added a member; recurBF is at most
\* |Attrs| activations deep
C8_Inv ==
    /\ (InClosureLoop /\ Validated(attrs, fds)
            /\ SeedOf(arg) \subseteq Members(attrs)) =>
           Members(loop.right) \subseteq Members(attrs)
    /\ (InClosureLoop /\ loop.pc = "test" /\ loop.ran) =>
           ((loop.n # loop.lastN) <=> (Members(loop.right) # Members(loop.before)))
    /\ loop.pc = "recur" => Len(loop.stack) <= Len(attrs)

\* in every step of a running call: the right side loses no member, and an
\* iteration of the filter loop leaves fewer candidates
C8_Step ==
    /\ (InClosureLoop /\ loop'.pc \in {"test", "pass"}) =>
           Members(loop.right) \subseteq Members(loop'.right)
    /\ (loop.pc = "filter" /\ loop'.pc = "filter") =>
           Len(loop'.candidates) < Len(loop.candidates)

\* C8: Closure's loop terminates: the right side never loses a member, stays
\* within Attrs for FDs over Attrs, and the loop exits after the first pass
\* that adds nothing; CandidateKeys, CandidateKeysAlt and CandidateKeysBF
\* (recursion at most |Attrs| deep, filter loop shrinking the candidate list)
\* terminate too, with a result that may be empty.
C8_LoopsTerminate ==
    /\ []C8_Inv
    /\ [][C8_Step]_vars
    /\ (loop.pc # "idle") ~> (loop.pc = "done")

\* C8 witness: a Closure call returns after passes that added two members
\* to the seed.
C8_Witness ==
    /\ op = "Closure"
    /\ loop.pc = "done"
    /\ loop.ran
    /\ Len(out.Right) = Len(AddAll(<<>>, <<arg.Left, arg.Right>>)) + 2

=============================================================================
